---- MODULE Spec2Model ----
(***************************************************************************)
(* Az-DevOps-Dependency-Check.                                             *)
(*                                                                         *)
(* Checker   (src/check_dependencies.py): main reads versions.json,        *)
(*           resolves an end-of-life date per record against the           *)
(*           endoflife.date registry, sorts, groups and prints a report.   *)
(* Collector (src/get_dependencies.py): the __main__ loop builds the       *)
(*           records and writes versions.json; get_version extracts a      *)
(*           version from a fetched file.                                  *)
(*                                                                         *)
(* Strings the code takes apart are sequences: a version is a sequence of  *)
(* characters ("3.8.1" is <<"3", ".", "8", ".", "1">>), a line of a        *)
(* fetched file is a sequence of tokens.                                   *)
(***************************************************************************)
EXTENDS Integers, Sequences, FiniteSets, TLC

VARIABLES
    \* ---- Checker (check_dependencies.py)
    dependencies,   \* json.load of versions.json                (main, line 157)
    pc,             \* where main is
    i,              \* position of the list comprehension        (main, line 161-164)
    version,        \* `version` of the running check_support_status call
    eol,            \* `eol` of the running check_support_status call
    results,        \* the comprehension's list, None included   (main, line 161)
    eols,           \* the list handed to log_support_status     (main, line 165-169)
    checking,       \* N of the printed "Checking N software versions"
    today,          \* datetime.date.today()                     (line 124)
    report,         \* the lines log_support_status printed
    cycles,         \* what /api/{dependency}/{cycle}.json answered so far
    products,       \* what /api/{dependency}.json answered so far
    trail,          \* history: per record, the versions passed to get_eol_date
    \* ---- Collector (get_dependencies.py)
    environments,   \* json.load of environments.json            (line 6-7)
    cpc,            \* where the __main__ block is
    idx,            \* position of `for env in environments`
    data,           \* the data list                             (line 122)
    versionsFile,   \* content of versions.json on disk
    \* ---- get_version applied to one input
    software,
    file_contents,
    outcome

checkerVars   == <<dependencies, pc, i, version, eol, results, eols, checking,
                   today, report, cycles, products, trail>>
collectorVars == <<environments, cpc, idx, data, versionsFile>>
versionVars   == <<software, file_contents, outcome>>
vars          == <<checkerVars, collectorVars, versionVars>>

----------------------------------------------------------------------------
\* Bounds of the model

MaxRecords == 2          \* records in versions.json
MaxDate    == 2          \* dates are 1..MaxDate (days)
MaxEnvs    == 2          \* entries in environments.json
MaxLines   == 2          \* lines of a file given to get_version
MaxLineLen == 3          \* tokens of one line

Dates == 1 .. MaxDate

Dependencies == {"python", "ansible"}

V3   == <<"3">>
V38  == <<"3", ".", "8">>
V381 == <<"3", ".", "8", ".", "1">>
V382 == <<"3", ".", "8", ".", "2">>
Versions == {V3, V38, V381, V382}


RECURSIVE SeqsUpTo(_, _)
SeqsUpTo(S, n) ==
    IF n = 0 THEN {<<>>}
    ELSE LET shorter == SeqsUpTo(S, n - 1)
         IN  shorter \cup {Append(s, x) : s \in {t \in shorter : Len(t) = n - 1}, x \in S}

\* The env and repo of a record are payload the code only copies: the k-th
\* entry of an input file carries the k-th name.
EnvNames    == <<"prod", "dev", "test", "uat">>
RepoNames   == <<"r1", "r2", "r3", "r4">>
EnvName(k)  == EnvNames[k]
RepoName(k) == RepoNames[k]

\* the possible contents of versions.json
VersionsFiles ==
    {[k \in 1 .. Len(q) |-> [dependency |-> q[k][1], version |-> q[k][2],
                             env |-> EnvName(k), repo |-> RepoName(k)]] :
        q \in SeqsUpTo(Dependencies \X Versions, MaxRecords)}

----------------------------------------------------------------------------
\* String helpers of check_support_status

\* "." in version
HasDot(v) == \E k \in 1 .. Len(v) : v[k] = "."

LastDot(v) ==
    CHOOSE k \in 1 .. Len(v) : v[k] = "." /\ \A j \in (k + 1) .. Len(v) : v[j] # "."

\* mutant: split instead of rsplit, everything after the first dot is dropped
TruncateAtFirstDot(v) ==
    SubSeq(v, 1, (CHOOSE k \in 1 .. Len(v) :
                     v[k] = "." /\ \A j \in 1 .. (k - 1) : v[j] # ".") - 1)

\* mutant: the [:-1] is missing, the version is joined back unchanged
TruncateNothing(v) == v

\* ".".join(version.rsplit(".", 1)[:-1]): what stands before the last dot
Truncate(v) == SubSeq(v, 1, LastDot(v) - 1)

----------------------------------------------------------------------------
\* The registry. A response is [status, body]; the registry answers one URL the
\* same way throughout a run, so an answer once given is kept in cycles/products.

NotFound == [status |-> 404, body |-> 0]

\* GET /api/{dependency}/{cycle}.json: 200 with data["eol"], a date string that
\* strptime reads (line 22), or not 200
CycleResponses == {NotFound} \cup {[status |-> 200, body |-> d] : d \in Dates}

\* the cycles of a product as the registry lists them (cycle as Version reads it)
ProductData == << [cycle |-> <<3, 8>>, latest |-> "3.8.20"],
                  [cycle |-> <<3, 10>>, latest |-> "3.10.4"],
                  [cycle |-> <<3, 9>>, latest |-> "3.9.19"] >>

\* GET /api/{dependency}.json: 200 with the list of cycles, or not 200
ProductResponses == {NotFound, [status |-> 200, body |-> ProductData]}

Answers(memo, url, all) == IF url \in DOMAIN memo THEN {memo[url]} ELSE all

Remember(memo, url, r) == IF url \in DOMAIN memo THEN memo ELSE memo @@ (url :> r)

\* packaging.version.Version ordering of two release tuples (3.8 == 3.8.0)
Seg(a, k) == IF k <= Len(a) THEN a[k] ELSE 0

VersionLess(a, b) ==
    LET n == IF Len(a) > Len(b) THEN Len(a) ELSE Len(b)
    IN  \E k \in 1 .. n : /\ Seg(a, k) < Seg(b, k)
                          /\ \A j \in 1 .. (k - 1) : Seg(a, j) = Seg(b, j)

\* sorted(product_data, key=Version(cycle), reverse=True)[0]["latest"]
LatestOf(product_data) ==
    LET first == CHOOSE j \in 1 .. Len(product_data) :
                    /\ \A l \in 1 .. Len(product_data) :
                          ~VersionLess(product_data[j].cycle, product_data[l].cycle)
                    /\ \A l \in 1 .. (j - 1) :
                          VersionLess(product_data[l].cycle, product_data[j].cycle)
    IN  product_data[first].latest

----------------------------------------------------------------------------
\* main of check_dependencies.py

\* the tuple check_support_status returns (line 75)
Status(dep, v, e, env, repo, latest) ==
    [dependency |-> dep, version |-> v, eol |-> e, env |-> env, repo |-> repo,
     latest |-> latest]

\* mutant: the count is taken of the distinct versions, not of the records
CheckingCountDistinct(deps) == Cardinality({deps[k].version : k \in 1 .. Len(deps)})

\* print(f"Checking {len(dependencies)} software versions")
CheckingCount(deps) == Len(deps)

\* eols = [eol for eol in eols if eol is not None]; None is <<>>, a tuple t is <<t>>
RECURSIVE NotNone(_)
NotNone(rs) ==
    IF rs = <<>> THEN <<>>
    ELSE IF Head(rs) = <<>> THEN NotNone(Tail(rs))
    ELSE <<Head(rs)[1]>> \o NotNone(Tail(rs))

\* mutant: a sort that puts a record before the records of equal date
InsertBeforeEqual(s, x) ==
    LET k == Cardinality({j \in 1 .. Len(s) : s[j].eol < x.eol})
    IN  SubSeq(s, 1, k) \o <<x>> \o SubSeq(s, k + 1, Len(s))

\* eols.sort(key=lambda x: x[2]): a stable ascending sort
InsertByEol(s, x) ==
    LET k == Cardinality({j \in 1 .. Len(s) : s[j].eol <= x.eol})
    IN  SubSeq(s, 1, k) \o <<x>> \o SubSeq(s, k + 1, Len(s))

\* mutant: the sort of line 167 is missing
SortOmitted(s) == s

RECURSIVE SortByEol(_)
SortByEol(s) ==
    IF s = <<>> THEN <<>>
    ELSE InsertByEol(SortByEol(SubSeq(s, 1, Len(s) - 1)), s[Len(s)])

\* the key of eols_dict (line 127)
GroupKey(t) == <<t.dependency, t.version>>

\* one turn of the loop of line 126-136; eols_dict in insertion order
AddToDict(dict, t) ==
    IF \E g \in 1 .. Len(dict) : dict[g].key = GroupKey(t)
    THEN LET g == CHOOSE g \in 1 .. Len(dict) : dict[g].key = GroupKey(t)
         IN  [dict EXCEPT ![g].env = Append(@, t.env), ![g].repo = Append(@, t.repo)]
    ELSE Append(dict, [key |-> GroupKey(t), eol |-> t.eol, env |-> <<t.env>>,
                       repo |-> <<t.repo>>, latest |-> t.latest])

RECURSIVE EolsDict(_)
EolsDict(es) ==
    IF es = <<>> THEN <<>>
    ELSE AddToDict(EolsDict(SubSeq(es, 1, Len(es) - 1)), es[Len(es)])

\* ', '.join(list)
RECURSIVE Join(_)
Join(list) ==
    IF list = <<>> THEN <<>>
    ELSE IF Len(list) = 1 THEN list
    ELSE <<Head(list), ", ">> \o Join(Tail(list))

\* mutant: > for >= at line 139
PhraseStrict(e, day) ==
    IF e > day THEN "will reach end of life on" ELSE "ran out of support on"

\* the branch of line 139
Phrase(e, day) ==
    IF e >= day THEN "will reach end of life on" ELSE "ran out of support on"

\* the line printed for one item of eols_dict (line 138-150)
Line(info, day) ==
    [dependency |-> info.key[1], version |-> info.key[2], env |-> Join(info.env),
     phrase |-> Phrase(info.eol, day), eol |-> info.eol, repo |-> Join(info.repo),
     latest |-> info.latest]

LogSupportStatus(es, day) ==
    LET dict == EolsDict(es) IN [g \in 1 .. Len(dict) |-> Line(dict[g], day)]

CheckerIdle ==
    /\ dependencies = <<>> /\ pc = "idle" /\ i = 0 /\ version = <<>> /\ eol = 0
    /\ results = <<>> /\ eols = <<>> /\ checking = -1 /\ today = 0
    /\ report = <<>> /\ cycles = <<>> /\ products = <<>> /\ trail = <<>>

\* versions.json on disk: absent, or holding a list
NoFile        == [exists |-> FALSE, content |-> <<>>]
FileWith(lst) == [exists |-> TRUE, content |-> lst]

CollectorIdle ==
    /\ environments = <<>> /\ cpc = "idle" /\ idx = 0 /\ data = <<>>
    /\ versionsFile = NoFile

VersionIdle ==
    /\ software = "" /\ file_contents = <<>> /\ outcome = <<>>

Init ==
    /\ dependencies \in VersionsFiles
    /\ pc = "main" /\ i = 0 /\ version = <<>> /\ eol = 0
    /\ results = <<>> /\ eols = <<>> /\ checking = -1 /\ today = 0
    /\ report = <<>> /\ cycles = <<>> /\ products = <<>>
    /\ trail = [k \in 1 .. Len(dependencies) |-> <<>>]
    /\ CollectorIdle
    /\ VersionIdle

\* the comprehension of line 161-164 takes the next record, or ends
NextRecord(res) ==
    /\ results' = Append(results, res)
    /\ eol' = 0
    /\ IF i < Len(dependencies)
       THEN /\ i' = i + 1
            /\ version' = dependencies[i + 1].version
            /\ pc' = "check_support_status"
       ELSE /\ i' = i
            /\ version' = <<>>
            /\ pc' = "log_support_status"

\* line 156-159, and the first call of check_support_status
Main ==
    /\ pc = "main"
    /\ checking' = CheckingCount(dependencies)
    /\ IF dependencies = <<>>
       THEN pc' = "log_support_status" /\ i' = 0 /\ version' = <<>>
       ELSE pc' = "check_support_status" /\ i' = 1
            /\ version' = dependencies[1].version
    /\ UNCHANGED <<dependencies, eol, results, eols, today, report, cycles,
                   products, trail>>
    /\ UNCHANGED <<collectorVars, versionVars>>

\* line 67-73: get_eol_date(dependency, version) answers, then the branch on it
CheckSupportStatus ==
    /\ pc = "check_support_status"
    /\ LET url == <<dependencies[i].dependency, version>>
       IN  \E response \in Answers(cycles, url, CycleResponses) :
              /\ cycles' = Remember(cycles, url, response)
              /\ trail' = [trail EXCEPT ![i] = Append(@, version)]
              /\ IF response.status = 200
                 THEN /\ eol' = response.body
                      /\ pc' = "get_latest_version"
                      /\ UNCHANGED <<i, version, results>>
                 ELSE IF HasDot(version)
                 THEN /\ version' = Truncate(version)
                      /\ UNCHANGED <<pc, i, eol, results>>
                 ELSE NextRecord(<<>>)
    /\ UNCHANGED <<dependencies, eols, checking, today, report, products>>
    /\ UNCHANGED <<collectorVars, versionVars>>

\* line 74-75: get_latest_version(dependency) answers, and the tuple is returned
GetLatestVersion ==
    /\ pc = "get_latest_version"
    /\ LET d == dependencies[i]
       IN  \E response \in Answers(products, d.dependency, ProductResponses) :
              /\ products' = Remember(products, d.dependency, response)
              /\ LET latest == IF response.status = 200
                               THEN LatestOf(response.body) ELSE "None"
                 IN  NextRecord(<<Status(d.dependency, version, eol, d.env, d.repo,
                                         latest)>>)
    /\ UNCHANGED <<dependencies, eols, checking, today, report, cycles, trail>>
    /\ UNCHANGED <<collectorVars, versionVars>>

\* requests.get(url, timeout=10) raises (timeout, connection error) at line 19 or
\* line 38; nothing catches it and main ends with the traceback
RequestRaises ==
    /\ pc \in {"check_support_status", "get_latest_version"}
    /\ pc' = "aborted"
    /\ trail' = IF pc = "check_support_status"
                THEN [trail EXCEPT ![i] = Append(@, version)] ELSE trail
    /\ UNCHANGED <<dependencies, i, version, eol, results, eols, checking, today,
                   report, cycles, products>>
    /\ UNCHANGED <<collectorVars, versionVars>>

\* line 165-169: filter, sort, log_support_status
Report ==
    /\ pc = "log_support_status"
    /\ eols' = SortByEol(NotNone(results))
    /\ \E day \in Dates :
          /\ today' = day
          /\ report' = LogSupportStatus(eols', day)
    /\ pc' = "done"
    /\ UNCHANGED <<dependencies, i, version, eol, results, checking, cycles,
                   products, trail>>
    /\ UNCHANGED <<collectorVars, versionVars>>

----------------------------------------------------------------------------
\* get_version of get_dependencies.py. file_contents is the list of lines
\* splitlines() yields; a line is a sequence of tokens, each token a literal
\* piece of text, chosen so that no two neighbours form a separator between them.

AnsibleTokens   == {"ansible", "==", "2.9", "-lint"}
TerraformTokens == {"terraformVersion", ": '", "1.5.0", "'"}

\* line.startswith("ansible")
StartsWithAnsible(line) == Len(line) >= 1 /\ line[1] = "ansible"

\* "terraformVersion: '" in line
HasTerraformMarker(line) ==
    \E k \in 1 .. (Len(line) - 1) : line[k] = "terraformVersion" /\ line[k + 1] = ": '"

SepPositions(line, sep) == {k \in 1 .. Len(line) : line[k] = sep}

Least(S) == CHOOSE k \in S : \A j \in S : k <= j

\* len(line.split(sep))
SplitCount(line, sep) == Cardinality(SepPositions(line, sep)) + 1

\* line.split(sep)[1], for a line with at least one sep
SplitSecond(line, sep) ==
    LET first == Least(SepPositions(line, sep))
        later == {k \in SepPositions(line, sep) : k > first}
        stop  == IF later = {} THEN Len(line) + 1 ELSE Least(later)
    IN  SubSeq(line, first + 1, stop - 1)

\* s.strip("'")
RECURSIVE StripQuotes(_)
StripQuotes(s) ==
    IF s = <<>> THEN <<>>
    ELSE IF Head(s) = "'" THEN StripQuotes(Tail(s))
    ELSE IF s[Len(s)] = "'" THEN StripQuotes(SubSeq(s, 1, Len(s) - 1))
    ELSE s

Returns(v)  == [raises |-> "", value |-> v]
Raises(exc) == [raises |-> exc, value |-> <<>>]

\* the positions the comprehensions keep: `if line.startswith("ansible")` and
\* `if "terraformVersion: '" in line`
AnsibleLines(lines)   == {k \in 1 .. Len(lines) : StartsWithAnsible(lines[k])}
TerraformLines(lines) == {k \in 1 .. Len(lines) : HasTerraformMarker(lines[k])}

\* line 76-106
get_version(sw, lines) ==
    IF sw = "ansible"
    THEN LET hits == AnsibleLines(lines)
         IN  IF \E k \in hits : SplitCount(lines[k], "==") < 2
             THEN Raises("IndexError")            \* the comprehension's [1], line 79
             ELSE IF hits # {}
             THEN Returns(SplitSecond(lines[Least(hits)], "=="))
             ELSE Raises("LookupError")
    ELSE IF sw = "terraform"
    THEN LET hits == TerraformLines(lines)
         IN  IF hits # {}
             THEN Returns(StripQuotes(SplitSecond(lines[Least(hits)], ": '")))
             ELSE Raises("LookupError")
    ELSE Raises("ValueError")

Softwares == {"ansible", "terraform", "helm"}

TokensOf(sw) == IF sw = "terraform" THEN TerraformTokens ELSE AnsibleTokens

FileContents(sw) == SeqsUpTo(SeqsUpTo(TokensOf(sw), MaxLineLen), MaxLines)

VersionInit ==
    /\ software \in Softwares
    /\ file_contents \in FileContents(software)
    /\ outcome = <<>>
    /\ CheckerIdle
    /\ CollectorIdle

\* one call get_version(software, file_contents)
GetVersion ==
    /\ outcome = <<>>
    /\ outcome' = <<get_version(software, file_contents)>>
    /\ UNCHANGED <<software, file_contents, checkerVars, collectorVars>>

VersionNext == GetVersion

VersionSpec == VersionInit /\ [][VersionNext]_vars

----------------------------------------------------------------------------
\* The __main__ block of get_dependencies.py

\* what the repository may hold at a file_path
RemoteFiles ==
    { << <<"-lint">>, <<"ansible", "==", "2.9">> >>,
      << <<"ansible", "==", "2.9">>, <<"ansible", "-lint">> >>,
      << <<"terraformVersion", ": '", "1.5.0", "'">> >>,
      << <<"1.5.0">> >> }

\* environments.json: an entry without file_path declares its version
EnvironmentSpecs(k) ==
    {[software |-> sw, envName |-> EnvName(k), repo |-> RepoName(k),
      project |-> "proj", has_file_path |-> f, version |-> <<"2.9">>] :
        sw \in Softwares, f \in BOOLEAN}

EnvironmentsFiles ==
    {es \in SeqsUpTo(UNION {EnvironmentSpecs(k) : k \in 1 .. MaxEnvs}, MaxEnvs) :
        \A k \in 1 .. Len(es) : es[k] \in EnvironmentSpecs(k)}

\* versions.json before the run: absent, or the list of an older run
PriorFiles ==
    {NoFile, FileWith(<<[dependency |-> "python", version |-> <<"3.7">>,
                         env |-> "old", repo |-> "old"]>>)}

CollectorInit ==
    /\ environments \in EnvironmentsFiles
    /\ versionsFile \in PriorFiles
    /\ cpc = "loop" /\ idx = 1 /\ data = <<>>
    /\ CheckerIdle
    /\ VersionIdle

\* line 125-134: no file_path, the declared version is taken
CollectStatic ==
    /\ cpc = "loop" /\ idx <= Len(environments)
    /\ ~environments[idx].has_file_path
    /\ LET env == environments[idx]
       IN  data' = Append(data, [dependency |-> env.software, version |-> env.version,
                                 env |-> env.envName, repo |-> env.repo])
    /\ idx' = idx + 1
    /\ UNCHANGED <<environments, cpc, versionsFile, checkerVars, versionVars>>

\* line 137 with line 44-47 or 55-57: requests.get raises, or answers other than
\* 200; get_file_contents raises FileNotFoundError, which nothing catches
FetchFails ==
    /\ cpc = "loop" /\ idx <= Len(environments)
    /\ environments[idx].has_file_path
    /\ cpc' = "failed"
    /\ UNCHANGED <<environments, idx, data, versionsFile, checkerVars, versionVars>>

\* line 137-151: the file arrives, get_version reads it
CollectRemote ==
    /\ cpc = "loop" /\ idx <= Len(environments)
    /\ environments[idx].has_file_path
    /\ \E content \in RemoteFiles :
          LET env == environments[idx]
              got == get_version(env.software, content)
          IN  IF got.raises = ""
              THEN /\ data' = Append(data, [dependency |-> env.software,
                                            version |-> got.value, env |-> env.envName,
                                            repo |-> env.repo, project |-> env.project])
                   /\ idx' = idx + 1
                   /\ UNCHANGED cpc
              ELSE /\ cpc' = "failed"
                   /\ UNCHANGED <<idx, data>>
    /\ UNCHANGED <<environments, versionsFile, checkerVars, versionVars>>

\* mutant: save_to_json indented into the loop body
AtSaveInLoop == idx > 1

\* whether the program is at line 154, after the loop
AtSave == idx > Len(environments)

\* line 154: save_to_json(data, "versions.json")
SaveToJson ==
    /\ cpc = "loop" /\ AtSave
    /\ versionsFile' = FileWith(data)
    /\ cpc' = "done"
    /\ UNCHANGED <<environments, idx, data, checkerVars, versionVars>>

CollectorNext == CollectStatic \/ FetchFails \/ CollectRemote \/ SaveToJson

CollectorSpec == CollectorInit /\ [][CollectorNext]_vars

----------------------------------------------------------------------------
Next == Main \/ CheckSupportStatus \/ GetLatestVersion \/ RequestRaises \/ Report

Spec == Init /\ [][Next]_vars

----------------------------------------------------------------------------
\* Vocabulary of the properties

Done == pc = "done"

DotPositions(v) == {k \in 1 .. Len(v) : v[k] = "."}
Dots(v)         == Cardinality(DotPositions(v))

\* v and every string that stands before one of its dots
DotPrefixes(v) == {v} \cup {SubSeq(v, 1, k - 1) : k \in DotPositions(v)}

\* the prefix of v with Dots(v) - n dots: v after n trailing segments are dropped
Dropped(v, n) ==
    CHOOSE p \in DotPrefixes(v) : Dots(p) = Dots(v) - n

Processed == 1 .. Len(results)

Resolved(k) == k \in Processed /\ results[k] # <<>>

Asked(dep, c)   == <<dep, c>> \in DOMAIN cycles
Known(dep, c)   == Asked(dep, c) /\ cycles[<<dep, c>>].status = 200
Unknown(dep, c) == Asked(dep, c) /\ cycles[<<dep, c>>].status # 200

KnownPrefixes(k) ==
    {p \in DotPrefixes(dependencies[k].version) : Known(dependencies[k].dependency, p)}

Longest(S) == CHOOSE p \in S : \A q \in S : Len(q) <= Len(p)

\* the entries of a joined list
Entries(joined) == {joined[j] : j \in {n \in 1 .. Len(joined) : joined[n] # ", "}}

\* the records whose returned tuple carries the key of a report line
Members(line) ==
    {k \in 1 .. Len(dependencies) :
        Resolved(k) /\ GroupKey(results[k][1]) = GroupKey(line)}

RECURSIVE InOrder(_, _, _)
\* names[k] for the k of S in increasing order, up to n
InOrder(S, n, names) ==
    IF n = 0 THEN <<>>
    ELSE IF n \in S THEN Append(InOrder(S, n - 1, names), names[n])
    ELSE InOrder(S, n - 1, names)

----------------------------------------------------------------------------
\* C1: the report line and the grouping use each record's input version: every
\* entry of a line comes from a record whose version in versions.json is the
\* version the line prints (so 3.8.1 and 3.8.2 resolved through 3.8 stay apart).
C1_ReportUsesInputVersion ==
    Done =>
        \A l \in 1 .. Len(report) :
            \A k \in 1 .. Len(dependencies) :
                EnvName(k) \in Entries(report[l].env) =>
                    /\ report[l].dependency = dependencies[k].dependency
                    /\ report[l].version = dependencies[k].version

\* C2: for a record whose version the registry does not know while it knows one
\* of its dot-prefixes, check_support_status returns the EOL date of the longest
\* known dot-prefix, after lookups that drop exactly one trailing segment each.
C2_LongestKnownPrefix ==
    \A k \in Processed :
        LET d     == dependencies[k]
            known == KnownPrefixes(k)
        IN  (Unknown(d.dependency, d.version) /\ known # {}) =>
                LET p == Longest(known)
                    n == Dots(d.version) - Dots(p)
                IN  /\ Resolved(k)
                    /\ results[k][1].eol = cycles[<<d.dependency, p>>].body
                    /\ trail[k] = [j \in 1 .. (n + 1) |-> Dropped(d.version, j - 1)]

C2_Witness ==
    \E k \in Processed :
        /\ dependencies[k].version = V381
        /\ Unknown(dependencies[k].dependency, V381)
        /\ Known(dependencies[k].dependency, V38)
        /\ Resolved(k)
        /\ trail[k] = <<V381, V38>>

\* C3: a failed registry lookup (not 200, timeout, transport error) is no data
\* for that one record: the run never aborts, and once it is done every record
\* with a known dot-prefix is in the report.
C3_FailedLookupIsNoData ==
    /\ pc # "aborted"
    /\ Done =>
          \A k \in 1 .. Len(dependencies) :
              KnownPrefixes(k) # {} =>
                  \E l \in 1 .. Len(report) : EnvName(k) \in Entries(report[l].env)

\* C4: two records with the same (dependency, version) whose EOL resolves are
\* printed on exactly one line; a line lists one environment and one repository
\* per contributing record in the order of versions.json, and carries the EOL
\* date and latest version of the first of them.
C4_OneLinePerGroup ==
    Done =>
        /\ \A j, k \in 1 .. Len(dependencies) :
              ( /\ Resolved(j) /\ Resolved(k)
                /\ dependencies[j].dependency = dependencies[k].dependency
                /\ dependencies[j].version = dependencies[k].version ) =>
                  Cardinality({l \in 1 .. Len(report) :
                      \/ GroupKey(report[l]) = GroupKey(results[j][1])
                      \/ GroupKey(report[l]) = GroupKey(results[k][1])}) = 1
        /\ \A l \in 1 .. Len(report) :
              LET m     == Members(report[l])
                  first == results[Least(m)][1]
              IN  /\ m # {}
                  /\ report[l].env = Join(InOrder(m, Len(dependencies), EnvNames))
                  /\ report[l].repo = Join(InOrder(m, Len(dependencies), RepoNames))
                  /\ report[l].eol = first.eol
                  /\ report[l].latest = first.latest
        /\ \A l1, l2 \in 1 .. Len(report) :
              l1 # l2 => GroupKey(report[l1]) # GroupKey(report[l2])

C4_Witness ==
    /\ Done
    /\ \E j, k \in 1 .. Len(dependencies) :
          /\ j < k /\ Resolved(j) /\ Resolved(k)
          /\ dependencies[j].dependency = dependencies[k].dependency
          /\ dependencies[j].version = dependencies[k].version
          /\ \E l \in 1 .. Len(report) : report[l].env = <<EnvName(j), ", ", EnvName(k)>>

\* C5: the report lines are printed in non-decreasing order of EOL date.
C5_LinesAscending ==
    Done =>
        \A a, b \in 1 .. Len(report) : a < b => report[a].eol <= report[b].eol

C5_Witness ==
    /\ Done
    /\ Len(report) >= 2
    /\ \E j, k \in 1 .. Len(dependencies) :
          j < k /\ Resolved(j) /\ Resolved(k) /\ results[j][1].eol > results[k][1].eol

\* C7: a record none of whose dot-prefixes the registry knows (a single-segment
\* version with no match included) gets no result, no exception; it is absent
\* from the report, and the Checking line counts every record of versions.json.
C7_UnresolvedIsDropped ==
    /\ \A k \in Processed :
          (\A p \in DotPrefixes(dependencies[k].version) :
              Unknown(dependencies[k].dependency, p)) => results[k] = <<>>
    /\ pc # "main" => checking = Len(dependencies)
    /\ Done =>
          \A k \in 1 .. Len(dependencies) :
              results[k] = <<>> =>
                  \A l \in 1 .. Len(report) :
                      /\ EnvName(k) \notin Entries(report[l].env)
                      /\ RepoName(k) \notin Entries(report[l].repo)

C7_Witness ==
    /\ Done
    /\ \E k \in 1 .. Len(dependencies) :
          /\ dependencies[k].version = V3
          /\ Unknown(dependencies[k].dependency, V3)
          /\ results[k] = <<>>
    /\ \E k \in 1 .. Len(dependencies) :
          /\ dependencies[k].version = V381
          /\ trail[k] = <<V381, V38, V3>>
          /\ results[k] = <<>>
    /\ checking = 2

\* C8: a line says "will reach end of life on" exactly when its EOL date is
\* today or later, and "ran out of support on" exactly when it is before today.
C8_PhraseByDate ==
    Done =>
        \A l \in 1 .. Len(report) :
            /\ report[l].phrase = "will reach end of life on" <=> report[l].eol >= today
            /\ report[l].phrase = "ran out of support on" <=> report[l].eol < today

C8_Witness ==
    /\ Done
    /\ \E l \in 1 .. Len(report) :
          report[l].eol = today /\ report[l].phrase = "will reach end of life on"
    /\ \E l \in 1 .. Len(report) : report[l].eol < today

\* a record costs at most dots + 1 lookups, each but the last one a miss
LookupsBounded ==
    \A k \in 1 .. Len(dependencies) :
        /\ Len(trail[k]) <= Dots(dependencies[k].version) + 1
        /\ \A j \in 1 .. (Len(trail[k]) - 1) :
              Unknown(dependencies[k].dependency, trail[k][j])

\* one call of check_support_status: a match ends the recursion, a miss on a
\* dotted version recurses on a version with fewer dots, a miss on a dot-free
\* version returns None
RecursionShrinks ==
    (pc = "check_support_status" /\ pc' # "aborted") =>
        LET answer == cycles'[<<dependencies[i].dependency, version>>]
        IN  \/ answer.status = 200 /\ pc' = "get_latest_version"
            \/ /\ answer.status # 200 /\ HasDot(version)
               /\ pc' = "check_support_status" /\ i' = i
               /\ Dots(version') < Dots(version)
            \/ /\ answer.status # 200 /\ ~HasDot(version)
               /\ Len(results') = Len(results) + 1
               /\ results'[i] = <<>>

\* C9: check_support_status terminates: a recursive call gets a version with
\* strictly fewer dots, a record costs at most dots + 1 lookups, and the
\* recursion ends at the first match or at a version without a dot.
C9_RecursionTerminates == [] LookupsBounded /\ [][RecursionShrinks]_vars

C9_Witness ==
    \E k \in Processed :
        Len(trail[k]) = 3 /\ Dots(dependencies[k].version) = 2

\* C6: a failing Collector run leaves versions.json as it was, however many
\* entries it had processed; the file is written only when every entry of
\* environments.json has produced a record.
C6_NoPartialHandOff ==
    /\ cpc = "failed" => versionsFile \in PriorFiles
    /\ versionsFile \notin PriorFiles =>
          /\ cpc = "done"
          /\ Len(data) = Len(environments)
          /\ versionsFile = FileWith(data)

C6_Witness ==
    /\ cpc = "failed"
    /\ idx = 2 /\ Len(data) = 1
    /\ versionsFile \in PriorFiles

\* C10: for ansible, get_version returns what follows "==" on the first line
\* starting with "ansible", whatever the later lines hold, and raises
\* LookupError exactly when no line starts with "ansible"; it raises nothing else.
C10_AnsibleRule ==
    (outcome # <<>> /\ software = "ansible") =>
        LET hits == {k \in 1 .. Len(file_contents) :
                        StartsWithAnsible(file_contents[k])}
            got  == outcome[1]
        IN  /\ got.raises \in {"", "LookupError"}
            /\ got.raises = "LookupError" <=> hits = {}
            /\ (hits # {} /\ "==" \in Entries(file_contents[Least(hits)])) =>
                  got = Returns(SplitSecond(file_contents[Least(hits)], "=="))

====
